---- MODULE Spec2Model ----
(***************************************************************************)
(* A model of package kht (src/kht.go): New builds a KeyedHashTree and Key *)
(* walks from the root key to the key of the block that holds an offset.   *)
(*                                                                         *)
(* Byte strings.  A byte string is a record [root, path]: path = <<>> is   *)
(* the literal bytes root; otherwise it is the digest obtained from the    *)
(* literal key root by hashing, in order, the messages of path, each step  *)
(* keyed by the digest before it.  Two digests are equal exactly when      *)
(* their key and their message are equal: the keyed hash is taken to be    *)
(* collision-free.                                                         *)
(*                                                                         *)
(* Memory.  mem maps every buffer to its contents.  A Go slice is a        *)
(* reference to a buffer: t.root is the buffer the caller passed to New,   *)
(* buf and k are the buffers a Key call allocates.                         *)
(*                                                                         *)
(* Numbers.  factor is a float64; the model holds it as a fraction         *)
(* <<numerator, denominator>>.  uint64 values stay below 2^31 within the   *)
(* bounds, so no product of the model wraps.                               *)
(***************************************************************************)
EXTENDS Integers, Sequences, FiniteSets, TLC

VARIABLES tree, mem, pc, offset, i, algCalls

vars == <<tree, mem, pc, offset, i, algCalls>>

(* Bounds of the model. *)
MaxBlockSize == 2
MaxMaxSize == 6
OverRange == 1
MaxDepth == 3

(* The digest size of the keyed hash of the tests, HMAC-MD5. *)
Size == 16

(* The goroutines that call Key on the one tree. *)
Procs == {"g1", "g2"}

(* The root keys a caller passes: "yay" of the tests, and a one-byte key. *)
Keys == {<<121, 97, 121>>, <<7>>}

(* The branching factors a caller passes, numerator over denominator. *)
Factors == {<<1, 2>>, <<1, 1>>, <<7, 4>>, <<2, 1>>, <<3, 1>>}

(* blockSize, maxSize, factor of TestKey. *)
TestKeyConfig == <<2, 16, <<8, 1>>>>

(* A tree of nine blocks and factor 3: maxSize/blockSize is the square of a
   factor that is no power of two. *)
NineBlockConfig == <<1, 9, <<3, 1>>>>

(* The arguments of New: every small combination, that of TestKey, and the
   nine-block tree. *)
Configs ==
  {<<bs, ms, f>> : bs \in 0..MaxBlockSize, ms \in 0..MaxMaxSize, f \in Factors}
    \cup {TestKeyConfig, NineBlockConfig}

----------------------------------------------------------------------------
(* Byte strings and buffers. *)

Raw(bytes) == [root |-> bytes, path |-> <<>>]

BytesLen(v) == IF v.path = <<>> THEN Len(v.root) ELSE Size

IsDigest(v) == v.path # <<>>

(* The keyed hash t.alg(k), fed msg and summed: h := t.alg(k); h.Write(buf);
   h.Sum(k[:0]). *)
alg(kv, msg) == [root |-> kv.root, path |-> Append(kv.path, msg)]

RootBuf == <<"key", "caller">>

(* buf := make([]byte, 16): a buffer of the call's own. *)
bufOfShared(p) == <<"buf", "g1">>
bufOf(p) == <<"buf", p>>

(* k := make([]byte, len(t.root)); copy(k, t.root): a buffer of the call's
   own, not t.root itself. *)
kOfAliased(p) == RootBuf
kOf(p) == <<"k", p>>

BufIds == {RootBuf} \cup {<<"buf", p>> : p \in Procs} \cup {<<"k", p>> : p \in Procs}

(* binary.LittleEndian.PutUint64: the eight bytes of n, least significant
   first (n < 2^31 in the model, so bytes 5 to 8 are zero). *)
LEByte(n, j) == IF j > 4 THEN 0 ELSE (n \div (256 ^ (j - 1))) % 256
PutUint64(n) == [j \in 1..8 |-> LEByte(n, j)]

(* The 16 bytes of buf after the two PutUint64 calls of one iteration. *)
Message(step, y) == PutUint64(step) \o PutUint64(y)

(* The uint64 stored, little-endian, in bytes from+1 .. from+8 of msg. *)
Uint64At(msg, from) ==
  msg[from + 1] + 256 * msg[from + 2] + 65536 * msg[from + 3]
    + 16777216 * msg[from + 4]

----------------------------------------------------------------------------
(* Arithmetic of New and Key. *)

RECURSIVE IPow(_, _)
IPow(a, n) == IF n = 0 THEN 1 ELSE a * IPow(a, n - 1)

(* uint64(math.Pow(factor, n)): the power, truncated towards zero. *)
PowTrunc(f, n) == IPow(f[1], n) \div IPow(f[2], n)

(* The least d >= from with (a/b)^d >= num/den, for a/b > 1. *)
RECURSIVE LeastPower(_, _, _, _, _)
LeastPower(num, den, a, b, d) ==
  IF IPow(a, d) * den >= num * IPow(b, d) THEN d
  ELSE LeastPower(num, den, a, b, d + 1)

(* ceil(log(num/den) / log(a/b)) for num/den > 1 and a/b > 1. *)
CeilLogQuot(num, den, a, b) == LeastPower(num, den, a, b, 0)

(* floor(log(num/den) / log(a/b)) for num/den > 1 and a/b > 1. *)
RECURSIVE FloorLogQuot(_, _, _, _, _)
FloorLogQuot(num, den, a, b, d) ==
  IF IPow(a, d + 1) * den > num * IPow(b, d + 1) THEN d
  ELSE FloorLogQuot(num, den, a, b, d + 1)

(* Whether n is 1, 2, 4, 8, ... *)
RECURSIVE IsPowerOfTwo(_)
IsPowerOfTwo(n) == n = 1 \/ (n > 1 /\ n % 2 = 0 /\ IsPowerOfTwo(n \div 2))

(* The values math.Ceil(math.Log(num/den) / math.Log(a/b)) takes in float64,
   for num/den > 1 and a/b > 1.  Each logarithm is rounded, so when num/den is
   exactly (a/b)^d with d >= 2 the quotient is d or the float64 next to d,
   whichever the build's math.Log yields, and Ceil gives d or d + 1.  (The
   portable math.Log gives Log(9)/Log(3) = 2.0000000000000004.)  The quotient
   is exact for d = 1, the same logarithm divided by itself, and for the
   powers of two, whose logarithm is computed as a multiple of Ln2; anywhere
   else within the bounds it lies far from an integer. *)
CeilLogQuotFloat(num, den, a, b) ==
  LET d == CeilLogQuot(num, den, a, b)
  IN  IF /\ d >= 2
         /\ IPow(a, d) * den = num * IPow(b, d)
         /\ ~(b = 1 /\ IsPowerOfTwo(a))
      THEN {d, d + 1}
      ELSE {d}

(* uint64(x) of a float64 x that no uint64 represents (NaN, an infinity, a
   negative number): Go leaves the result to the implementation. *)
ImplementationDependent == 0..MaxDepth

(* The sign of math.Log(maxSize/blockSize) and of math.Log(factor). *)
LogRatio(bs, ms) ==
  IF bs = 0 THEN (IF ms = 0 THEN "nan" ELSE "+inf")
  ELSE IF ms = 0 THEN "-inf"
  ELSE IF ms > bs THEN "pos"
  ELSE IF ms = bs THEN "zero" ELSE "neg"

LogFactor(f) == IF f[1] > f[2] THEN "pos" ELSE IF f[1] = f[2] THEN "zero" ELSE "neg"

(* The values depth can take:
   uint64(math.Ceil(math.Log(float64(maxSize)/float64(blockSize)) / math.Log(factor))). *)
Depths(bs, ms, f) ==
  LET lr == LogRatio(bs, ms)
      lf == LogFactor(f)
  IN  IF lr \in {"nan", "+inf", "-inf"} \/ lf = "zero" THEN ImplementationDependent
      ELSE IF lr = "zero" THEN {0}
      ELSE IF lr = "pos" /\ lf = "pos" THEN CeilLogQuotFloat(ms, bs, f[1], f[2])
      ELSE IF lr = "neg" /\ lf = "neg" THEN CeilLogQuotFloat(bs, ms, f[2], f[1])
      ELSE IF lr = "pos"
           THEN (IF FloorLogQuot(ms, bs, f[2], f[1], 0) = 0 THEN {0}
                 ELSE ImplementationDependent)
           ELSE (IF FloorLogQuot(bs, ms, f[1], f[2], 0) = 0 THEN {0}
                 ELSE ImplementationDependent)

(* if offset > t.maxSize { panic(...) } *)
TooGreatInclusive(t, off) == off >= t.maxSize
TooGreat(t, off) == off > t.maxSize

(* blockSize := uint64(math.Pow(t.factor, float64(level-1))) * t.blockSize *)
LevelBlockSizeOneUp(t, level) == PowTrunc(t.factor, level) * t.blockSize
LevelBlockSize(t, level) == PowTrunc(t.factor, level - 1) * t.blockSize

(* y := offset / blockSize, for blockSize > 0. *)
NodeIndexNoDivision(off, bs) == off
NodeIndex(off, bs) == off \div bs

----------------------------------------------------------------------------
(* The state. *)

NoTree == [built |-> FALSE, root |-> RootBuf, blockSize |-> 0, maxSize |-> 0,
           factor |-> <<1, 1>>, depth |-> 0]

(* The parameters New documents: blockSize > 0, maxSize >= blockSize, factor > 1. *)
ValidParams(bs, ms, f) == bs > 0 /\ ms >= bs /\ f[1] > f[2]

Valid(t) == t.built /\ ValidParams(t.blockSize, t.maxSize, t.factor)

Init ==
  /\ tree = NoTree
  /\ \E key \in Keys :
       mem = [b \in BufIds |-> IF b = RootBuf THEN Raw(key) ELSE Raw(<<>>)]
  /\ pc = [p \in Procs |-> "idle"]
  /\ offset = [p \in Procs |-> 0]
  /\ i = [p \in Procs |-> 0]
  /\ algCalls = [p \in Procs |-> 0]

(* New(key, alg, blockSize, maxSize, factor): stores the slice key itself as
   root, and computes depth.  It checks nothing. *)
New ==
  /\ ~tree.built
  /\ \E c \in Configs :
       \E d \in Depths(c[1], c[2], c[3]) :
         tree' = [built |-> TRUE, root |-> RootBuf, blockSize |-> c[1],
                  maxSize |-> c[2], factor |-> c[3], depth |-> d]
  /\ UNCHANGED <<mem, pc, offset, i, algCalls>>

(* Key(offset), lines 79-85: the bound check, then buf and k are allocated and
   the root key copied into k. *)
KeyEnter(p) ==
  /\ tree.built
  /\ pc[p] \in {"idle", "done", "panicOffset", "panicDivide"}
  /\ \E off \in 0..(tree.maxSize + OverRange) :
       /\ offset' = [offset EXCEPT ![p] = off]
       /\ IF TooGreat(tree, off)
          THEN /\ pc' = [pc EXCEPT ![p] = "panicOffset"]
               /\ mem' = mem
          ELSE /\ pc' = [pc EXCEPT ![p] = "loop"]
               /\ mem' = [mem EXCEPT ![bufOf(p)] = Raw([j \in 1..16 |-> 0]),
                                     ![kOf(p)] = mem[tree.root]]
  /\ i' = [i EXCEPT ![p] = 0]
  /\ algCalls' = [algCalls EXCEPT ![p] = 0]
  /\ UNCHANGED tree

(* Lines 86-92 of one iteration: level, blockSize and y are computed and the
   step counter and y written to buf.  A zero blockSize makes the division
   panic. *)
KeyIndex(p) ==
  /\ pc[p] = "loop"
  /\ i[p] < tree.depth
  /\ LET bs == LevelBlockSize(tree, tree.depth - i[p])
     IN  IF bs = 0
         THEN /\ pc' = [pc EXCEPT ![p] = "panicDivide"]
              /\ mem' = mem
         ELSE /\ pc' = [pc EXCEPT ![p] = "hash"]
              /\ mem' = [mem EXCEPT ![bufOf(p)] =
                           Raw(Message(i[p], NodeIndex(offset[p], bs)))]
  /\ UNCHANGED <<tree, offset, i, algCalls>>

(* Lines 94-96 and the i++ of line 86: a hash keyed by k is fed buf, and its
   sum becomes k. *)
KeyHash(p) ==
  /\ pc[p] = "hash"
  /\ mem' = [mem EXCEPT ![kOf(p)] = alg(mem[kOf(p)], mem[bufOf(p)].root)]
  /\ algCalls' = [algCalls EXCEPT ![p] = algCalls[p] + 1]
  /\ i' = [i EXCEPT ![p] = i[p] + 1]
  /\ pc' = [pc EXCEPT ![p] = "loop"]
  /\ UNCHANGED <<tree, offset>>

(* The loop ends (line 86) and k is returned (line 98). *)
KeyReturn(p) ==
  /\ pc[p] = "loop"
  /\ i[p] >= tree.depth
  /\ pc' = [pc EXCEPT ![p] = "done"]
  /\ UNCHANGED <<tree, mem, offset, i, algCalls>>

(* The caller of New clears the slice it passed as key. *)
Overwrite ==
  /\ tree.built
  /\ \E j \in DOMAIN mem[RootBuf].root : mem[RootBuf].root[j] # 0
  /\ mem' = [mem EXCEPT ![RootBuf] = Raw([j \in DOMAIN mem[RootBuf].root |-> 0])]
  /\ UNCHANGED <<tree, pc, offset, i, algCalls>>

Next ==
  \/ New
  \/ \E p \in Procs : KeyEnter(p)
  \/ \E p \in Procs : KeyIndex(p)
  \/ \E p \in Procs : KeyHash(p)
  \/ \E p \in Procs : KeyReturn(p)

Spec == Init /\ [][Next]_vars

NextCaller == Next \/ Overwrite

(* The program with a caller that keeps writing to the slice it gave New. *)
SpecCaller == Init /\ [][NextCaller]_vars

----------------------------------------------------------------------------
(* Key as a function of the tree, the root key and the offset: one call run
   alone from entry to return. *)

DividePanic == [root |-> <<>>, path |-> << <<>> >>]
OffsetPanic == [root |-> <<>>, path |-> << <<>>, <<>> >>]

RECURSIVE Walk(_, _, _, _)
Walk(t, kv, off, step) ==
  IF step >= t.depth THEN kv
  ELSE LET bs == LevelBlockSize(t, t.depth - step)
       IN  IF bs = 0 THEN DividePanic
           ELSE Walk(t, alg(kv, Message(step, NodeIndex(off, bs))), off, step + 1)

KeyOf(t, rootKey, off) ==
  IF TooGreat(t, off) THEN OffsetPanic ELSE Walk(t, rootKey, off, 0)

(* What a finished call returned. *)
Result(p) == mem[kOf(p)]

(* Two offsets of the same leaf block. *)
SameBlock(t, o1, o2) == o1 \div t.blockSize = o2 \div t.blockSize

(* The call of p is running or has returned; mem[kOf(p)] is its working key. *)
Walking(p) == pc[p] \in {"loop", "done"}

----------------------------------------------------------------------------
(* C1: on a tree built with valid parameters, two calls whose offsets lie in
   the same leaf block hold the same working key after the same number of
   steps, and so return the same key: every message hashed on the way, not
   only the last, is the same for both. *)
C1_BlockGranularity ==
  \A p, q \in Procs :
    (/\ Valid(tree)
     /\ Walking(p) /\ Walking(q)
     /\ i[p] = i[q]
     /\ SameBlock(tree, offset[p], offset[q]))
      => mem[kOf(p)] = mem[kOf(q)]

(* Two calls with different offsets of one block have both returned from a
   walk of two or more steps. *)
C1_Witness ==
  \E p, q \in Procs :
    /\ Valid(tree) /\ tree.depth >= 2
    /\ pc[p] = "done" /\ pc[q] = "done"
    /\ offset[p] # offset[q]
    /\ SameBlock(tree, offset[p], offset[q])

(* C2: on a valid tree of depth >= 1, two calls whose offsets lie in
   different leaf blocks return different keys; on the tree of TestKey
   (blockSize 2, maxSize 16, factor 8) the offsets 0..15 yield eight keys,
   offsets 2j and 2j+1 sharing one. *)
C2_KeyUniqueness ==
  /\ \A p, q \in Procs :
       (/\ Valid(tree) /\ tree.depth >= 1
        /\ pc[p] = "done" /\ pc[q] = "done"
        /\ ~SameBlock(tree, offset[p], offset[q]))
         => Result(p) # Result(q)
  /\ (tree.built /\ <<tree.blockSize, tree.maxSize, tree.factor>> = TestKeyConfig)
       => /\ Cardinality({KeyOf(tree, mem[tree.root], o) : o \in 0..15}) = 8
          /\ \A j \in 0..7 : KeyOf(tree, mem[tree.root], 2 * j)
                               = KeyOf(tree, mem[tree.root], 2 * j + 1)

(* Two calls with offsets of different blocks have both returned, on a tree
   of depth >= 2 where the first step of both hashed the same node index. *)
C2_Witness ==
  \E p, q \in Procs :
    /\ Valid(tree) /\ tree.depth >= 2
    /\ pc[p] = "done" /\ pc[q] = "done"
    /\ ~SameBlock(tree, offset[p], offset[q])
    /\ Result(p).path[1] = Result(q).path[1]

(* C3: a call panics with "offset greater than maximum size" exactly when
   its offset exceeds maxSize (offset = maxSize is accepted), and the step
   that panics creates no hash and changes neither the tree nor any buffer. *)
C3_OffsetBound ==
  /\ [](\A p \in Procs :
          (tree.built /\ pc[p] # "idle")
            => /\ (pc[p] = "panicOffset") <=> (offset[p] > tree.maxSize)
               /\ pc[p] = "panicOffset" => algCalls[p] = 0)
  /\ [][\A p \in Procs :
          (/\ pc'[p] = "panicOffset"
           /\ (pc[p] # "panicOffset" \/ offset'[p] # offset[p]))
            => (tree' = tree /\ mem' = mem /\ algCalls'[p] = 0)]_vars

(* One call has panicked on maxSize + 1 and another has returned the key of
   offset maxSize. *)
C3_Witness ==
  \E p, q \in Procs :
    /\ Valid(tree)
    /\ pc[p] = "panicOffset" /\ offset[p] = tree.maxSize + 1
    /\ pc[q] = "done" /\ offset[q] = tree.maxSize /\ algCalls[q] >= 1

(* C5: no step of a Key call changes the tree or the bytes of its root key,
   and two calls that returned for the same offset, however many calls were
   made in between, returned the same bytes. *)
C5_Purity ==
  /\ [][tree.built => (tree' = tree /\ mem'[tree.root] = mem[tree.root])]_vars
  /\ [](\A p, q \in Procs :
          (pc[p] = "done" /\ pc[q] = "done" /\ offset[p] = offset[q])
            => Result(p) = Result(q))

(* Two calls have returned for the same offset after at least one hash step
   each. *)
C5_Witness ==
  /\ tree.depth >= 1
  /\ \A p \in Procs : pc[p] = "done" /\ algCalls[p] >= 1
  /\ \A p, q \in Procs : offset[p] = offset[q]

(* C6: a call whose steps interleave in any order with those of other calls
   on the same tree returns (or panics) exactly as the call run alone. *)
C6_Concurrent ==
  \A p \in Procs :
    /\ pc[p] = "done" => Result(p) = KeyOf(tree, mem[tree.root], offset[p])
    /\ pc[p] = "panicDivide" => KeyOf(tree, mem[tree.root], offset[p]) = DividePanic
    /\ pc[p] = "panicOffset" => KeyOf(tree, mem[tree.root], offset[p]) = OffsetPanic

(* One call has returned while another, of a different block, is between
   writing its index buffer and hashing it. *)
C6_Witness ==
  \E p, q \in Procs :
    /\ Valid(tree) /\ tree.depth >= 2
    /\ pc[p] = "done" /\ pc[q] = "hash" /\ i[q] >= 1
    /\ ~SameBlock(tree, offset[p], offset[q])

----------------------------------------------------------------------------
(* The walk as the design describes it: the node index of step `step` is
   floor(offset / (blockSize * factor^(depth-step-1))), the power taken as a
   real number. *)
RECURSIVE DesignWalk(_, _, _, _)
DesignWalk(t, kv, off, step) ==
  IF step >= t.depth THEN kv
  ELSE LET e == t.depth - step - 1
           y == (off * IPow(t.factor[2], e)) \div (t.blockSize * IPow(t.factor[1], e))
       IN  DesignWalk(t, alg(kv, Message(step, y)), off, step + 1)

(* The node index the call of p hashed at step 0, read back from the first
   message of its working key. *)
FirstIndex(p) == Uint64At(mem[kOf(p)].path[1], 8)

(* C4: on a tree built with valid parameters, maxSize = blockSize included,
   a returned key has the length of a digest and is the output of a hash
   step, never the root key itself. *)
C4_OutputLength ==
  \A p \in Procs :
    (Valid(tree) /\ pc[p] = "done")
      => (BytesLen(Result(p)) = Size /\ IsDigest(Result(p)))

(* C7: the caller may overwrite the slice it passed to New: two calls that
   returned for the same offset returned the same bytes, whatever the caller
   did to that slice in between (stated for valid trees of depth >= 1, whose
   keys are digests). *)
C7_RootKeyOwnership ==
  \A p, q \in Procs :
    (/\ Valid(tree) /\ tree.depth >= 1
     /\ pc[p] = "done" /\ pc[q] = "done" /\ offset[p] = offset[q])
      => Result(p) = Result(q)

(* C8: New yields no tree for factor <= 1, blockSize = 0 or
   maxSize < blockSize: every tree there is has valid parameters, so no Key
   call divides by zero. *)
C8_ParameterValidation ==
  /\ tree.built => ValidParams(tree.blockSize, tree.maxSize, tree.factor)
  /\ \A p \in Procs : pc[p] # "panicDivide"

(* C9: on a valid tree, whatever the factor, a call returns after exactly
   depth hash steps the key of the design's walk; the block size of the last
   level is blockSize and no divisor is zero. *)
C9_DerivationWalk ==
  /\ \A p \in Procs :
       (Valid(tree) /\ pc[p] = "done")
         => /\ algCalls[p] = tree.depth
            /\ Result(p) = DesignWalk(tree, mem[tree.root], offset[p], 0)
  /\ Valid(tree)
       => /\ LevelBlockSize(tree, 1) = tree.blockSize
          /\ \A level \in 1..tree.depth : LevelBlockSize(tree, level) > 0

(* C10: on a valid tree depth is the least d >= 0 with
   factor^d >= maxSize/blockSize (1 for the tree of TestKey), and the node
   index hashed at step 0 for an offset below maxSize is less than factor. *)
C10_Depth ==
  /\ Valid(tree)
       => /\ IPow(tree.factor[1], tree.depth) * tree.blockSize
               >= tree.maxSize * IPow(tree.factor[2], tree.depth)
          /\ tree.depth >= 1
               => IPow(tree.factor[1], tree.depth - 1) * tree.blockSize
                    < tree.maxSize * IPow(tree.factor[2], tree.depth - 1)
          /\ <<tree.blockSize, tree.maxSize, tree.factor>> = TestKeyConfig
               => tree.depth = 1
  /\ \A p \in Procs :
       (Valid(tree) /\ Walking(p) /\ i[p] >= 1 /\ offset[p] < tree.maxSize)
         => FirstIndex(p) * tree.factor[2] < tree.factor[1]

====
